---- MODULE Spec2Model ----
(***************************************************************************)
(* A model of the cache-consistency and task-dispatch layer of the Survey  *)
(* API: cache_key, the @cache decorator, invalidate_cache and CacheManager *)
(* (app/cache.py) and the request handlers that use them (app/main.py).    *)
(*                                                                         *)
(* Strings are sequences of one-character strings, so that joining with    *)
(* ":" and Redis' prefix pattern "<key>*" are computed on characters.      *)
(***************************************************************************)
EXTENDS Integers, Sequences, FiniteSets, TLC

VARIABLES
    redis,      \* the Redis database: key -> [val: JSON text, ttl: seconds left]
    calls,      \* cache_key study: the calls made so far, each with its key
    last,       \* CacheManager study: the last call made and what it returned
    written,    \* CacheManager study: the last set_* that succeeded, and its age
    invalidated, \* CacheManager study: the (kind, id, had an entry) invalidated
                \* and not set since
    fk,         \* store: whether the database enforces foreign keys
    surveys,    \* store: the ids of the rows of table surveys
    questions,  \* store: table questions, question id -> survey_id
    answers,    \* store: table answers, in id order
    results,    \* store: table results, in id order
    ver,        \* per survey id, how many commits have changed its data
    proc,       \* per request slot, the request being handled and where it is
    ackVer,     \* per survey id, ver as of the last write that returned success
    invVer,     \* per survey id, ver as of the last write whose invalidation
                \* of the "survey" resource has completed
    nWrites,    \* how many write requests have been started
    up,         \* whether the Redis server of the cache can be reached
    celery,     \* the tasks sent to the Celery broker with .delay(), in order
    reports     \* report study: the runs of generate_survey_report made so far

keyVars == <<calls>>
cacheVars == <<last, written, invalidated>>
storeVars == <<fk, surveys, questions, answers, results, ver>>
appVars == <<fk, surveys, questions, answers, results, ver, proc, ackVer, invVer, nWrites>>
taskVars == <<up, celery, reports>>
vars == <<redis, calls, last, written, invalidated, fk, surveys, questions, answers,
          results, ver, proc, ackVer, invVer, nWrites, up, celery, reports>>

(***************************************************************************)
(* Characters and strings                                                  *)
(***************************************************************************)

\* The characters the model uses, in code point order (Python compares str
\* by code point).
Alphabet ==
    << "0", "1", "2", "3", "4", "5", "6", "7", "8", "9", ":", "<", ">", "@",
       "A", "R", "S", "U", "_", "a", "b", "c", "d", "e", "i", "k", "l", "m",
       "n", "p", "r", "s", "t", "u", "v", "w", "x", "y" >>

CharOrd(c) == CHOOSE i \in 1..Len(Alphabet) : Alphabet[i] = c

RECURSIVE StrLess(_, _)
\* s < t for two str, as Python compares them.
StrLess(s, t) ==
    IF t = <<>> THEN FALSE
    ELSE IF s = <<>> THEN TRUE
    ELSE IF Head(s) = Head(t) THEN StrLess(Tail(s), Tail(t))
    ELSE CharOrd(Head(s)) < CharOrd(Head(t))

\* str.startswith, which is what the pattern "<prefix>*" of KEYS matches
\* when the prefix holds no glob character.
StartsWith(s, prefix) ==
    /\ Len(prefix) <= Len(s)
    /\ SubSeq(s, 1, Len(prefix)) = prefix

HasColon(s) == \E i \in 1..Len(s) : s[i] = ":"

Digit(d) == Alphabet[d + 1]

RECURSIVE IntStr(_)
\* str(n) of an int n >= 0: its decimal digits.
IntStr(n) == IF n < 10 THEN <<Digit(n)>> ELSE IntStr(n \div 10) \o <<Digit(n % 10)>>

(***************************************************************************)
(* Python values                                                           *)
(***************************************************************************)

PyInt(n) == [t |-> "int", n |-> n]
PyStr(s) == [t |-> "str", s |-> s]
\* An instance of a class that defines neither __str__ nor __repr__ (an ORM
\* entity, a Session): it is known by its class, its address and its state.
PyObj(cls, addr, st) == [t |-> "obj", cls |-> cls, addr |-> addr, st |-> st]
\* A dict, as its items in insertion order.
PyDict(items) == [t |-> "dict", items |-> items]
PyNone == [t |-> "none"]
\* A list, as its elements in order.
PyList(items) == [t |-> "list", items |-> items]

\* str(v). The default repr "<app.models.User object at 0x7f..>" is written
\* "<" class "@" address ">": it depends on the class and the address only.
Str(v) ==
    CASE v.t = "int" -> IntStr(v.n)
      [] v.t = "str" -> v.s
      [] v.t = "obj" -> <<"<">> \o v.cls \o <<"@">> \o IntStr(v.addr) \o <<">">>
      [] OTHER -> <<"n">>

(***************************************************************************)
(* cache_key                                                               *)
(***************************************************************************)

RECURSIVE Insert(_, _)
\* One step of sorting (k, v) items by k; the keys of a kwargs dict differ.
Insert(item, sorted) ==
    IF sorted = <<>> THEN <<item>>
    ELSE IF StrLess(item[1], Head(sorted)[1]) THEN <<item>> \o sorted
    ELSE <<Head(sorted)>> \o Insert(item, Tail(sorted))

\* The items left in call order.
Unsorted(items) == items

RECURSIVE Sorted(_)
\* sorted(kwargs.items())
Sorted(items) ==
    IF items = <<>> THEN <<>> ELSE Insert(Head(items), Sorted(Tail(items)))

RECURSIVE Join(_)
\* ":".join(parts)
Join(parts) ==
    IF parts = <<>> THEN <<>>
    ELSE IF Len(parts) = 1 THEN parts[1]
    ELSE parts[1] \o <<":">> \o Join(Tail(parts))

\* cache_key that leaves the positional arguments out of the key.
cache_key_NoArgs(prefix, args, kwargs) ==
    LET kw == Sorted(kwargs)
    IN  Join(<<prefix>> \o [i \in 1..Len(kw) |-> kw[i][1] \o <<":">> \o Str(kw[i][2])])

\* cache_key(prefix, *args, **kwargs); kwargs as its items in call order.
cache_key(prefix, args, kwargs) ==
    LET key_parts1 == <<prefix>> \o [i \in 1..Len(args) |-> Str(args[i])]
        kw == Sorted(kwargs)
        key_parts2 == [i \in 1..Len(kw) |-> kw[i][1] \o <<":">> \o Str(kw[i][2])]
    IN  Join(key_parts1 \o key_parts2)

(***************************************************************************)
(* json.dumps / json.loads                                                 *)
(***************************************************************************)

\* A JSON text is kept as what it spells: an object's members in order, each
\* a (name, number) pair whose name is a str. TypeError stands for the
\* exception json.dumps raises.
JsonObject(members) == [j |-> "object", members |-> members]
JsonNull == [j |-> "null"]
JsonArray(elements) == [j |-> "array", elements |-> elements]
TypeError == [j |-> "TypeError"]

\* The name json.dumps writes for a dict key: a str as it is, an int as its
\* decimal digits.
JsonName(k) == IF k.t = "int" THEN IntStr(k.n) ELSE k.s

\* json.dumps(v): a dict becomes an object, None becomes null, a list becomes
\* an array, and an object of a class json does not know raises TypeError,
\* in a list as on its own.
Dumps(v) ==
    CASE v.t = "dict" ->
            JsonObject([i \in 1..Len(v.items) |->
                            <<JsonName(v.items[i][1]), v.items[i][2]>>])
      [] v.t = "none" -> JsonNull
      [] v.t = "list" ->
            IF \E i \in 1..Len(v.items) : v.items[i].t = "obj"
            THEN TypeError
            ELSE JsonArray(v.items)
      [] OTHER -> TypeError

\* json.loads(text): an object becomes a dict with str keys; of two members
\* with one name the later one's value is kept.
Loads(text) ==
    IF text.j = "null" THEN PyNone
    ELSE IF text.j = "array" THEN PyList(text.elements)
    ELSE LET m == text.members
             kept == { i \in 1..Len(m) : \A h \in 1..(i - 1) : m[h][1] # m[i][1] }
             lastOf(i) == CHOOSE h \in 1..Len(m) :
                             /\ m[h][1] = m[i][1]
                             /\ \A g \in (h + 1)..Len(m) : m[g][1] # m[i][1]
             RECURSIVE build(_)
             build(i) ==
                 IF i > Len(m) THEN <<>>
                 ELSE (IF i \in kept THEN << <<PyStr(m[i][1]), m[lastOf(i)][2]>> >>
                       ELSE <<>>) \o build(i + 1)
         IN  PyDict(build(1))

\* v == w in Python: two dicts are equal when they hold the same items,
\* whatever their order.
PyEq(v, w) ==
    IF v.t = "dict" /\ w.t = "dict"
    THEN { v.items[i] : i \in 1..Len(v.items) } = { w.items[i] : i \in 1..Len(w.items) }
    ELSE v = w

\* bool(v)
Truthy(v) ==
    CASE v.t = "none" -> FALSE
      [] v.t = "dict" -> v.items # <<>>
      [] v.t = "list" -> v.items # <<>>
      [] OTHER -> TRUE

(***************************************************************************)
(* Redis                                                                   *)
(***************************************************************************)

NoDb == [k \in {} |-> 0]
NoCall == [op |-> "none"]

\* GET key: the text, or None.
RedisGet(db, key) == IF key \in DOMAIN db THEN db[key].val ELSE PyNone

\* Whether redis_client.get returned a non-empty str (json writes no empty
\* text, so every text found is one).
Found(data) == data # PyNone

\* A Redis that takes any expire.
SetexOk_Any(expire) == TRUE

\* SETEX key expire text: Redis refuses an expire that is not positive.
SetexOk(expire) == expire > 0

RedisSetex(db, key, expire, text) ==
    [k \in DOMAIN db \cup {key} |->
        IF k = key THEN [val |-> text, ttl |-> expire] ELSE db[k]]

\* KEYS <prefix>*
RedisKeys(db, prefix) == { k \in DOMAIN db : StartsWith(k, prefix) }

\* DEL keys
RedisDelete(db, keys) == [k \in DOMAIN db \ keys |-> db[k]]

\* A database whose entries never expire.
RedisAfter_NoExpiry(db, d) == db

\* The database d seconds later: every entry whose time is up is gone.
RedisAfter(db, d) ==
    [k \in { h \in DOMAIN db : db[h].ttl > d } |-> [db[k] EXCEPT !.ttl = @ - d]]

(***************************************************************************)
(* invalidate_cache and CacheManager                                       *)
(***************************************************************************)

\* expire: int = 300
DefaultExpire == 300

S_survey == <<"s", "u", "r", "v", "e", "y">>
S_survey_results == S_survey \o <<"_", "r", "e", "s", "u", "l", "t", "s">>

\* The two cached resources, by the name CacheManager gives each.
Kinds == { S_survey, S_survey_results }

\* invalidate_cache that finds the keys and deletes none.
invalidate_cache_NoDelete(db, prefix, args) == db

\* invalidate_cache(prefix, *args): the keys found, then deleted if any.
invalidate_cache(db, prefix, args) ==
    LET pattern == cache_key(prefix, args, <<>>)
        keys == RedisKeys(db, pattern)
    IN  IF keys # {} THEN RedisDelete(db, keys) ELSE db

\* CacheManager.get_survey / get_survey_results
cm_get(db, kind, id) ==
    LET key == cache_key(kind, <<PyInt(id)>>, <<>>)
        data == RedisGet(db, key)
    IN  IF Found(data) THEN Loads(data) ELSE PyNone

\* Whether CacheManager.set_survey / set_survey_results returns (it raises
\* what json.dumps or SETEX raises).
cm_set_ok(data, expire) == Dumps(data) # TypeError /\ SetexOk(expire)

\* CacheManager.set_survey / set_survey_results, when it returns.
cm_set(db, kind, id, data, expire) ==
    LET key == cache_key(kind, <<PyInt(id)>>, <<>>)
    IN  RedisSetex(db, key, expire, Dumps(data))

\* CacheManager.invalidate_survey / invalidate_survey_results
cm_invalidate(db, kind, id) == invalidate_cache(db, kind, <<PyInt(id)>>)

(***************************************************************************)
(* The store and the requests                                              *)
(***************************************************************************)

\* How many write requests a behaviour starts.
MaxWrites == 1

\* The request slots: requests handled at the same time.
Procs == { "p1", "p2" }

\* The ids of the users who send requests.
Users == { 1, 2 }

\* The addresses at which a request's User object is allocated, and the one
\* at which its Session is.
UserAddrs == { 1, 2 }
SessionAddr == 3

\* Survey ids the store can come to hold: survey 1 and one per write.
IdSpace == 1..(1 + MaxWrites)

S_read_survey == <<"r", "e", "a", "d", "_">> \o S_survey
S_survey_id == S_survey \o <<"_", "i", "d">>
S_db == <<"d", "b">>
S_current_user == <<"c", "u", "r", "r", "e", "n", "t", "_", "u", "s", "e", "r">>
S_read_result == <<"r", "e", "a", "d", "_", "r", "e", "s", "u", "l", "t">>
S_result_id == <<"r", "e", "s", "u", "l", "t", "_", "i", "d">>
S_Result == <<"R", "e", "s", "u", "l", "t">>
S_read_answers == <<"r", "e", "a", "d", "_", "a", "n", "s", "w", "e", "r", "s">>
S_read_results == S_read_result \o <<"s">>
S_skip == <<"s", "k", "i", "p">>
S_limit == <<"l", "i", "m", "i", "t">>
S_Answer == <<"A", "n", "s", "w", "e", "r">>
S_User == <<"U", "s", "e", "r">>
S_Session == <<"S", "e", "s", "s", "i", "o", "n">>

\* The row of survey s as the store holds it after n commits, loaded as an
\* ORM entity, and the same data as a dict.
SurveyRow(s, n) == PyObj(S_survey, 0, [id |-> s, ver |-> n])
SurveyDict(n) == PyDict(<< <<PyStr(<<"v">>), n>> >>)

\* How many commits the data of a cached or returned survey had seen.
VerOf(v) == IF v.t = "dict" THEN v.items[1][2] ELSE v.st.ver

NoResp == [status |-> "none", body |-> PyNone]

Idle ==
    [op |-> "idle", pc |-> 0, s |-> 0, q |-> 0, u |-> 0, au |-> 0, val |-> PyNone,
     r |-> 0, skip |-> 0, limit |-> 0, stage |-> "scan", keys |-> {}, log |-> <<>>, bg |-> <<>>, ran |-> <<>>,
     resp |-> NoResp,
     ack0 |-> 0, inv1 |-> 0, v |-> 0]

\* The application at rest, with an empty store.
AppUnused ==
    /\ fk = FALSE
    /\ surveys = {}
    /\ questions = <<>>
    /\ answers = <<>>
    /\ results = <<>>
    /\ ver = [s \in IdSpace |-> 0]
    /\ proc = [p \in Procs |-> Idle]
    /\ ackVer = [s \in IdSpace |-> 0]
    /\ invVer = [s \in IdSpace |-> 0]
    /\ nWrites = 0
    /\ up = TRUE
    /\ celery = <<>>
    /\ reports = <<>>

(***************************************************************************)
(* cache_key on its own: two calls, each with the key it returned          *)
(***************************************************************************)

\* At most this many parts (positional and keyword together) after the name.
MaxParts == 3

KeyNames == { <<"x">>, <<"y">> }
ArgVals == { PyInt(1), PyStr(<<"1", ":", "1">>), PyStr(<<"a">>) }
KwNames == { <<"a">>, <<"b">> }
KwVals == { PyInt(1), PyInt(2) }

RECURSIVE SeqsOf(_, _)
\* The sequences over S of length n.
SeqsOf(S, n) ==
    IF n = 0 THEN { <<>> }
    ELSE { <<x>> \o s : x \in S, s \in SeqsOf(S, n - 1) }

SeqsUpTo(S, n) == UNION { SeqsOf(S, i) : i \in 0..n }

\* The keywords of a call: items whose names differ, in the order passed.
KwargsUpTo(n) ==
    { kw \in SeqsUpTo(KwNames \X KwVals, n) :
        \A i, j \in 1..Len(kw) : i # j => kw[i][1] # kw[j][1] }

KeyCalls ==
    { [prefix |-> p, args |-> a, kwargs |-> kw] :
        p \in KeyNames,
        a \in SeqsUpTo(ArgVals, MaxParts),
        kw \in KwargsUpTo(MaxParts) }

InitKey ==
    /\ calls = <<>>
    /\ redis = NoDb
    /\ last = NoCall
    /\ written = NoCall
    /\ invalidated = {}
    /\ AppUnused

\* One call of cache_key, recorded with its result.
CallCacheKey ==
    /\ Len(calls) < 2
    /\ \E c \in KeyCalls :
        /\ Len(c.args) + Len(c.kwargs) <= MaxParts
        /\ calls' = Append(calls,
                [prefix |-> c.prefix, args |-> c.args, kwargs |-> c.kwargs,
                 key |-> cache_key(c.prefix, c.args, c.kwargs)])
    /\ UNCHANGED <<redis, cacheVars, appVars, taskVars>>

NextKey == CallCacheKey

SpecKey == InitKey /\ [][NextKey]_vars

\* The keyword mapping of a call, whatever the order it was passed in.
KwMapping(kw) == { kw[i] : i \in 1..Len(kw) }

\* C9: two calls with the same name, the same positional sequence and the
\* same keyword mapping return the same key, whatever the order in which the
\* keywords were passed.
C9_KeywordOrderIndependent ==
    Len(calls) = 2 =>
        ( ( /\ calls[1].prefix = calls[2].prefix
            /\ calls[1].args = calls[2].args
            /\ KwMapping(calls[1].kwargs) = KwMapping(calls[2].kwargs) )
          => calls[1].key = calls[2].key )

\* Two calls that pass the same two keywords in opposite orders.
C9_Witness ==
    /\ Len(calls) = 2
    /\ calls[1].prefix = calls[2].prefix
    /\ calls[1].args = calls[2].args
    /\ Len(calls[1].kwargs) = 2
    /\ calls[2].kwargs = <<calls[1].kwargs[2], calls[1].kwargs[1]>>
    /\ calls[1].key = calls[2].key

\* The two calls are cache_key(name, a, b) and cache_key(name, b, a).
Swapped ==
    /\ Len(calls) = 2
    /\ calls[1].prefix = calls[2].prefix
    /\ calls[1].kwargs = <<>> /\ calls[2].kwargs = <<>>
    /\ Len(calls[1].args) = 2
    /\ calls[2].args = <<calls[1].args[2], calls[1].args[1]>>

\* C10 as stated: whenever str(a) # str(b), cache_key(name, a, b) differs
\* from cache_key(name, b, a).
C10_AsStated ==
    (Swapped /\ Str(calls[1].args[1]) # Str(calls[1].args[2]))
        => calls[1].key # calls[2].key

\* C10 amended: whenever str(a) # str(b) and neither holds the separator
\* ":", cache_key(name, a, b) differs from cache_key(name, b, a).
C10_PositionalOrderDependent ==
    ( /\ Swapped
      /\ Str(calls[1].args[1]) # Str(calls[1].args[2])
      /\ ~HasColon(Str(calls[1].args[1]))
      /\ ~HasColon(Str(calls[1].args[2])) )
        => calls[1].key # calls[2].key

\* Two colon-free positional arguments passed in both orders.
C10_Witness ==
    /\ Swapped
    /\ Str(calls[1].args[1]) # Str(calls[1].args[2])
    /\ ~HasColon(Str(calls[1].args[1]))
    /\ ~HasColon(Str(calls[1].args[2]))
    /\ calls[1].key # calls[2].key

\* No name and no value of call c holds the separator ":".
Colonless(c) ==
    /\ ~HasColon(c.prefix)
    /\ \A i \in 1..Len(c.args) : ~HasColon(Str(c.args[i]))
    /\ \A i \in 1..Len(c.kwargs) :
            ~HasColon(c.kwargs[i][1]) /\ ~HasColon(Str(c.kwargs[i][2]))

\* C11 as stated: two calls that differ in name, positional sequence or
\* keyword mapping, and in which nothing holds the separator ":", return
\* different keys.
C11_AsStated ==
    Len(calls) = 2 =>
        ( ( /\ \/ calls[1].prefix # calls[2].prefix
               \/ calls[1].args # calls[2].args
               \/ KwMapping(calls[1].kwargs) # KwMapping(calls[2].kwargs)
            /\ Colonless(calls[1])
            /\ Colonless(calls[2]) )
          => calls[1].key # calls[2].key )

(***************************************************************************)
(* CacheManager on its own: a client calling set, get and invalidate while *)
(* time passes                                                             *)
(***************************************************************************)

\* The seconds one step of time takes.
Quantum == 150

\* Ids whose decimal forms are a prefix of one another, and one that is not.
CacheIds == { 5, 52 }

\* A dict json writes and reads back as it is, a dict with an int key, and
\* an ORM entity.
CacheVals ==
    { PyDict(<< <<PyStr(<<"a">>), 0>> >>),
      PyDict(<< <<PyInt(1), 0>> >>),
      PyObj(<<"S">>, 1, 0) }

Expires == { 0, DefaultExpire }

\* The key CacheManager uses for a resource.
KeyOf(kind, id) == cache_key(kind, <<PyInt(id)>>, <<>>)

InitCache ==
    /\ redis = NoDb
    /\ calls = <<>>
    /\ last = NoCall
    /\ written = NoCall
    /\ invalidated = {}
    /\ AppUnused

\* await CacheManager.set_survey(id, data, expire) (or set_survey_results)
CallSet ==
    \E kind \in Kinds, id \in CacheIds, data \in CacheVals, expire \in Expires :
        /\ IF cm_set_ok(data, expire)
           THEN /\ redis' = cm_set(redis, kind, id, data, expire)
                /\ written' = [op |-> "set", kind |-> kind, id |-> id, data |-> data,
                               left |-> expire, expire0 |-> expire,
                               fresh |-> \E had \in BOOLEAN :
                                            <<kind, id, had>> \in invalidated]
                /\ invalidated' = invalidated \ { <<kind, id, had>> : had \in BOOLEAN }
                /\ last' = [op |-> "set"]
           ELSE /\ last' = [op |-> "set_raised"]
                /\ UNCHANGED <<redis, written, invalidated>>
        /\ UNCHANGED <<calls, appVars, taskVars>>

\* await CacheManager.get_survey(id) (or get_survey_results)
CallGet ==
    \E kind \in Kinds, id \in CacheIds :
        /\ last' = [op |-> "get", kind |-> kind, id |-> id,
                    ret |-> cm_get(redis, kind, id)]
        /\ UNCHANGED <<redis, calls, written, invalidated, appVars, taskVars>>

\* await CacheManager.invalidate_survey(id) (or invalidate_survey_results)
CallInvalidate ==
    \E kind \in Kinds, id \in CacheIds :
        /\ redis' = cm_invalidate(redis, kind, id)
        /\ last' = [op |-> "invalidate", kind |-> kind, id |-> id]
        /\ written' = NoCall
        /\ invalidated' =
                (invalidated \ { <<kind, id, FALSE>> })
                    \cup { <<kind, id, \/ KeyOf(kind, id) \in DOMAIN redis
                                       \/ <<kind, id, TRUE>> \in invalidated>> }
        /\ UNCHANGED <<calls, appVars, taskVars>>

\* Quantum seconds pass.
Elapse ==
    /\ redis' = RedisAfter(redis, Quantum)
    /\ written' = IF written = NoCall THEN written
                  ELSE [written EXCEPT !.left = IF @ > Quantum THEN @ - Quantum ELSE 0]
    /\ last' = [op |-> "elapse"]
    /\ UNCHANGED <<calls, invalidated, appVars, taskVars>>

NextCache == CallSet \/ CallGet \/ CallInvalidate \/ Elapse

SpecCache == InitCache /\ [][NextCache]_vars

\* The last call was a get of the resource the last set wrote, with no set
\* and no invalidate in between.
GetAfterSet ==
    /\ last.op = "get"
    /\ written # NoCall
    /\ last.kind = written.kind
    /\ last.id = written.id

\* A dict json writes and reads back unchanged: its keys are str.
StrKeyed(v) == v.t = "dict" /\ \A i \in 1..Len(v.items) : v.items[i][1].t = "str"

\* C4 as stated: invalidate_survey(i) / invalidate_survey_results(i) removes
\* the entry of that kind for i and leaves every other entry present.
C4_AsStated ==
    [][ last'.op = "invalidate" =>
            DOMAIN redis' = DOMAIN redis \ { KeyOf(last'.kind, last'.id) } ]_vars

\* C7 as stated: set(id, v, ttl), then get(id) with no set or invalidate in
\* between, returns a value equal to v while ttl has not elapsed and None
\* once it has, for every v that was set.
C7_AsStated ==
    GetAfterSet =>
        IF written.left > 0 THEN PyEq(last.ret, written.data) ELSE last.ret = PyNone

\* C7 amended: the same, for every v that is a dict with str keys; for any v
\* set, get returns None once ttl has elapsed.
C7_RoundTripAndExpiry ==
    GetAfterSet =>
        IF written.left > 0
        THEN (StrKeyed(written.data) => PyEq(last.ret, written.data))
        ELSE last.ret = PyNone

\* A get that returned what was set, some time after the set.
C7_Witness ==
    /\ GetAfterSet
    /\ written.left > 0 /\ written.left < written.expire0
    /\ StrKeyed(written.data)
    /\ PyEq(last.ret, written.data)

\* The last call was a get of a resource invalidated and not set since.
GetAfterInvalidate ==
    /\ last.op = "get"
    /\ \E had \in BOOLEAN : <<last.kind, last.id, had>> \in invalidated

\* The last call was a get right after the set that followed an invalidate
\* of the same resource.
GetAfterInvalidateAndSet ==
    /\ GetAfterSet
    /\ written.fresh
    /\ written.left = written.expire0

SpecCacheLive == InitCache /\ [][NextCache]_vars /\ WF_vars(Elapse)

\* A step in which a set_* writes the entry of (kind, id).
Rewrite(kind, id) ==
    /\ last'.op = "set"
    /\ written'.kind = kind
    /\ written'.id = id

MaxAnswers == 2

AnswerTexts == { "a", "b" }

\* A row of table answers: models.Answer(question_id, user_id, text, is_correct).
AnswerRow(q, u, text, is_correct) ==
    [q |-> q, u |-> u, text |-> text, is_correct |-> is_correct]

\* db.query(models.Answer).join(models.Question).filter(
\*     models.Question.survey_id == survey_id): the ids of the answers whose
\* question exists and belongs to survey s.
JoinedAnswers(s) ==
    { i \in DOMAIN answers :
        /\ answers[i].q \in DOMAIN questions
        /\ questions[answers[i].q] = s }

\* .all() of a query with no ORDER BY: the rows in any order.
Orders(S) ==
    { o \in SeqsOf(S, Cardinality(S)) : \A i, j \in 1..Len(o) : i # j => o[i] # o[j] }

\* data.append({...}) for each answer, in the order the query returned them.
Data(order) ==
    [i \in 1..Len(order) |->
        [question_id |-> answers[order[i]].q,
         answer_text |-> answers[order[i]].text,
         is_correct |-> answers[order[i]].is_correct,
         user_id |-> answers[order[i]].u]]

\* What a run of a task gives: a returned dict or a raised exception.
Outcome(out, error, total_responses, qs) ==
    [out |-> out, error |-> error, total_responses |-> total_responses, questions |-> qs]

SurveyNotFound == Outcome("error", "Survey not found", 0, <<>>)
\* pd.DataFrame([]) has no columns, so df["user_id"] raises KeyError.
KeyError == Outcome("raised", "KeyError", 0, <<>>)

\* The statistics of one question: question_data = df[df["question_id"] == qid].
QuestionStats(data, qid) ==
    LET question_data == SelectSeq(data, LAMBDA r : r.question_id = qid)
        texts == { question_data[i].answer_text : i \in 1..Len(question_data) }
    IN  [total_answers |-> Len(question_data),
         correct_answers |-> Len(SelectSeq(question_data, LAMBDA r : r.is_correct = TRUE)),
         answer_distribution |->
            [t \in texts |-> Len(SelectSeq(question_data, LAMBDA r : r.answer_text = t))]]

\* generate_survey_report keeping the questions as a list in the order their
\* answers came, not as a dict.
generate_survey_report_Listed(survey_id, order) ==
    IF survey_id \notin surveys THEN SurveyNotFound
    ELSE LET data == Data(order)
         IN  IF data = <<>> THEN KeyError
             ELSE Outcome("stats", "",
                    Cardinality({ data[i].user_id : i \in 1..Len(data) }),
                    [i \in 1..Len(data) |-> QuestionStats(data, data[i].question_id)])

\* generate_survey_report(survey_id), the query having returned the answers
\* in this order.
generate_survey_report(survey_id, order) ==
    IF survey_id \notin surveys THEN SurveyNotFound
    ELSE LET data == Data(order)
             question_ids == { data[i].question_id : i \in 1..Len(data) }
         IN  IF data = <<>> THEN KeyError
             ELSE Outcome("stats", "",
                    Cardinality({ data[i].user_id : i \in 1..Len(data) }),
                    [qid \in question_ids |-> QuestionStats(data, qid)])

\* The store holds survey 1 with one or two questions and up to MaxAnswers
\* answers; an answer names a missing question only where the database does
\* not enforce foreign keys.
InitReport ==
    /\ redis = NoDb
    /\ calls = <<>>
    /\ last = NoCall
    /\ written = NoCall
    /\ invalidated = {}
    /\ fk \in BOOLEAN
    /\ surveys = {1}
    /\ questions \in { <<1>>, <<1, 1>> }
    /\ answers \in SeqsUpTo({ AnswerRow(q, u, t, c) :
                                q \in 1..2, u \in Users, t \in AnswerTexts, c \in BOOLEAN },
                            MaxAnswers)
    /\ fk => \A i \in DOMAIN answers : answers[i].q \in DOMAIN questions
    /\ results = <<>>
    /\ ver = [s \in IdSpace |-> 0]
    /\ proc = [p \in Procs |-> Idle]
    /\ ackVer = [s \in IdSpace |-> 0]
    /\ invVer = [s \in IdSpace |-> 0]
    /\ nWrites = 0
    /\ up = TRUE
    /\ celery = <<>>
    /\ reports = <<>>

\* One run of generate_survey_report(s), recorded with what it gave.
RunReport ==
    /\ Len(reports) < 2
    /\ \E s \in IdSpace : \E order \in Orders(JoinedAnswers(s)) :
        reports' = Append(reports,
            [s |-> s, order |-> order, out |-> generate_survey_report(s, order)])
    /\ UNCHANGED <<redis, keyVars, cacheVars, appVars, up, celery>>

NextReport == RunReport

SpecReport == InitReport /\ [][NextReport]_vars

\* C16: two runs of generate_survey_report(s) on an unchanged store give
\* equal outcomes, in whatever order the query returned the answers, and a
\* run changes nothing in the store or in the cache.
C16_ReportIdempotent ==
    /\ [](\A i, j \in DOMAIN reports :
            reports[i].s = reports[j].s => reports[i].out = reports[j].out)
    /\ [][reports' # reports => UNCHANGED <<storeVars, redis>>]_vars

\* Two runs for the same survey whose queries returned the answers of two
\* questions in different orders, both giving the same statistics.
C16_Witness ==
    /\ Len(reports) = 2
    /\ reports[1].s = reports[2].s
    /\ reports[1].order # reports[2].order
    /\ reports[1].out.out = "stats"
    /\ Cardinality(DOMAIN reports[1].out.questions) = 2
    /\ reports[1].out = reports[2].out

\* The answers table holds these answers of question qid.
AnswersTo(qid) == { i \in DOMAIN answers : answers[i].q = qid }

\* C20 as stated: for every existing survey s, with or without answers, the
\* report is a stats result whose counts match the answers table; for an
\* absent survey it is the error value 'Survey not found'.
C20_AsStated ==
    \A k \in DOMAIN reports :
        LET s == reports[k].s
            out == reports[k].out
        IN  IF s \notin surveys THEN out = SurveyNotFound
            ELSE /\ out.out = "stats"
                 /\ out.total_responses =
                        Cardinality({ answers[i].u : i \in JoinedAnswers(s) })
                 /\ DOMAIN out.questions = { answers[i].q : i \in JoinedAnswers(s) }
                 /\ \A qid \in DOMAIN out.questions :
                        LET st == out.questions[qid]
                        IN  /\ st.total_answers = Cardinality(AnswersTo(qid))
                            /\ st.correct_answers =
                                Cardinality({ i \in AnswersTo(qid) : answers[i].is_correct })
                            /\ st.correct_answers <= st.total_answers

(***************************************************************************)
(* The request handlers of app/main.py, one step per round trip to the     *)
(* store or to Redis                                                       *)
(***************************************************************************)

\* read_survey under @cache(expire=300), in the order it runs.
read_survey_steps ==
    << "rs_deco_get", "rs_cm_get", "rs_query", "rs_cm_set", "rs_deco_set" >>

create_survey_steps ==
    << "cs_commit_survey", "cs_commit_questions", "cs_invalidate_survey", "cs_return" >>

\* create_answer invalidating before it commits.
create_answer_steps_InvalidateFirst ==
    << "ca_query", "ca_invalidate_survey", "ca_invalidate_results", "ca_commit",
       "ca_add_task", "ca_return" >>

create_answer_steps ==
    << "ca_commit", "ca_query", "ca_invalidate_survey", "ca_invalidate_results",
       "ca_add_task", "ca_return" >>

\* create_result scheduling the notification only.
create_result_steps_NoReport ==
    << "cr_commit_result", "cr_commit_answers", "cr_invalidate_results",
       "cr_add_notify", "cr_return" >>

create_result_steps ==
    << "cr_commit_result", "cr_commit_answers", "cr_invalidate_results",
       "cr_add_report", "cr_add_notify", "cr_return" >>

\* read_result under @cache(expire=300).
read_result_steps == << "rr_deco_get", "rr_query", "rr_deco_set" >>

\* read_answers and read_results under @cache(expire=300).
read_list_steps == << "rl_deco_get", "rl_query", "rl_deco_set" >>

export_survey_steps == << "ex_query", "ex_delay", "ex_return" >>

get_survey_report_steps == << "gr_query", "gr_delay", "gr_return" >>

Steps(op) ==
    CASE op = "read_survey" -> read_survey_steps
      [] op = "create_survey" -> create_survey_steps
      [] op = "create_answer" -> create_answer_steps
      [] op = "create_result" -> create_result_steps
      [] op = "read_result" -> read_result_steps
      [] op = "read_answers" -> read_list_steps
      [] op = "read_results" -> read_list_steps
      [] op = "export_survey" -> export_survey_steps
      [] op = "get_survey_report" -> get_survey_report_steps
      [] OTHER -> <<>>

\* Request slot p is about to run the step named label.
At(p, label) ==
    /\ proc[p].pc \in 1..Len(Steps(proc[p].op))
    /\ Steps(proc[p].op)[proc[p].pc] = label

Goto(op, label) == CHOOSE i \in 1..Len(Steps(op)) : Steps(op)[i] = label

Event(e, kind, id) == [e |-> e, kind |-> kind, id |-> id]

Max(a, b) == IF a >= b THEN a ELSE b

\* The survey ids a request may name: those in the store and the next one.
Targets == { s \in IdSpace : s <= Cardinality(surveys) + 1 }

\* The key @cache builds for read_survey(survey_id=s, db=.., current_user=..)
\* when the request's User object is at address au.
DecoKey(s, au) ==
    cache_key(S_read_survey, <<>>,
              << <<S_survey_id, PyInt(s)>>,
                 <<S_db, PyObj(S_Session, SessionAddr, 0)>>,
                 <<S_current_user, PyObj(S_User, au, 0)>> >>)

\* The request of slot p ends with this response; its locals are dropped.
Finish(p, status, body) ==
    [proc[p] EXCEPT !.pc = 0,
                    !.au = 0, !.val = PyNone, !.stage = "scan", !.keys = {},
                    !.resp = [status |-> status, body |-> body],
                    !.inv1 = IF proc[p].s \in IdSpace THEN invVer[proc[p].s] ELSE 0]

\* A call to Redis made while the server cannot be reached raises
\* redis.ConnectionError, which no handler catches: the request fails.
Unreachable(p) ==
    [Finish(p, "error", PyNone)
        EXCEPT !.log = Append(@, Event("unreachable", <<>>, proc[p].s))]

\* invalidate_cache catching the connection error and going on.
InvalidateStep_Swallow(p, kind, id) ==
    LET pattern == cache_key(kind, <<PyInt(id)>>, <<>>)
    IN  IF ~up
        THEN /\ proc' = [proc EXCEPT ![p].stage = "scan", ![p].keys = {},
                                     ![p].pc = @ + 1,
                                     ![p].log = Append(@, Event("unreachable", <<>>, id))]
             /\ UNCHANGED <<redis, invVer>>
        ELSE IF proc[p].stage = "scan"
        THEN /\ proc' = [proc EXCEPT ![p].stage = "delete",
                                     ![p].keys = RedisKeys(redis, pattern),
                                     ![p].log = Append(@, Event("invalidate_begin", kind, id))]
             /\ UNCHANGED <<redis, invVer>>
        ELSE /\ redis' = IF proc[p].keys # {} THEN RedisDelete(redis, proc[p].keys)
                         ELSE redis
             /\ proc' = [proc EXCEPT ![p].stage = "scan",
                                     ![p].keys = {},
                                     ![p].pc = @ + 1,
                                     ![p].log = Append(@, Event("invalidate", kind, id))]
             /\ invVer' = IF kind = S_survey
                          THEN [invVer EXCEPT ![id] = Max(@, proc[p].v)]
                          ELSE invVer

\* One round trip of CacheManager.invalidate_*(id) in slot p: KEYS, then DEL
\* of what KEYS found.
InvalidateStep(p, kind, id) ==
    LET pattern == cache_key(kind, <<PyInt(id)>>, <<>>)
    IN  IF ~up
        THEN /\ proc' = [proc EXCEPT ![p] = Unreachable(p)]
             /\ UNCHANGED <<redis, invVer>>
        ELSE IF proc[p].stage = "scan"
        THEN /\ proc' = [proc EXCEPT ![p].stage = "delete",
                                     ![p].keys = RedisKeys(redis, pattern),
                                     ![p].log = Append(@, Event("invalidate_begin", kind, id))]
             /\ UNCHANGED <<redis, invVer>>
        ELSE /\ redis' = IF proc[p].keys # {} THEN RedisDelete(redis, proc[p].keys)
                         ELSE redis
             /\ proc' = [proc EXCEPT ![p].stage = "scan",
                                     ![p].keys = {},
                                     ![p].pc = @ + 1,
                                     ![p].log = Append(@, Event("invalidate", kind, id))]
             /\ invVer' = IF kind = S_survey
                          THEN [invVer EXCEPT ![id] = Max(@, proc[p].v)]
                          ELSE invVer

(******************************** read_survey ******************************)

StartReadSurvey(p) ==
    /\ proc[p].pc = 0
    /\ \E s \in Targets, au \in UserAddrs :
        proc' = [proc EXCEPT ![p] =
                    [Idle EXCEPT !.op = "read_survey", !.pc = 1, !.s = s, !.au = au,
                                 !.ack0 = ackVer[s]]]
    /\ UNCHANGED <<redis, keyVars, cacheVars, taskVars, storeVars, ackVer, invVer, nWrites>>

\* wrapper: cached_value = redis_client.get(key); return json.loads(..)
RS_DecoGet(p) ==
    /\ At(p, "rs_deco_get")
    /\ LET data == RedisGet(redis, DecoKey(proc[p].s, proc[p].au))
       IN  proc' = [proc EXCEPT ![p] =
                IF ~up THEN Unreachable(p)
                ELSE IF Found(data) THEN Finish(p, "ok", Loads(data))
                ELSE [@ EXCEPT !.pc = @ + 1]]
    /\ UNCHANGED <<redis, keyVars, cacheVars, taskVars, storeVars, ackVer, invVer, nWrites>>

\* cached_survey = await CacheManager.get_survey(survey_id)
RS_CmGet(p) ==
    /\ At(p, "rs_cm_get")
    /\ LET cached_survey == cm_get(redis, S_survey, proc[p].s)
       IN  proc' = [proc EXCEPT ![p] =
                IF ~up THEN Unreachable(p)
                ELSE IF Truthy(cached_survey)
                THEN [@ EXCEPT !.val = cached_survey,
                               !.pc = Goto("read_survey", "rs_deco_set")]
                ELSE [@ EXCEPT !.pc = @ + 1]]
    /\ UNCHANGED <<redis, keyVars, cacheVars, taskVars, storeVars, ackVer, invVer, nWrites>>

\* survey = db.query(models.Survey).filter(..).first(); 404 if None
RS_Query(p) ==
    /\ At(p, "rs_query")
    /\ proc' = [proc EXCEPT ![p] =
            IF proc[p].s \in surveys
            THEN [@ EXCEPT !.val = SurveyRow(proc[p].s, ver[proc[p].s]),
                           !.pc = @ + 1,
                           !.log = Append(@, Event("query", <<>>, proc[p].s))]
            ELSE Finish(p, "not_found", PyNone)]
    /\ UNCHANGED <<redis, keyVars, cacheVars, taskVars, storeVars, ackVer, invVer, nWrites>>

\* await CacheManager.set_survey(survey_id, survey)
RS_CmSet(p) ==
    /\ At(p, "rs_cm_set")
    /\ IF Dumps(proc[p].val) = TypeError
       THEN /\ proc' = [proc EXCEPT ![p] = Finish(p, "error", PyNone)]
            /\ UNCHANGED redis
       ELSE IF ~up
       THEN /\ proc' = [proc EXCEPT ![p] = Unreachable(p)]
            /\ UNCHANGED redis
       ELSE IF cm_set_ok(proc[p].val, DefaultExpire)
       THEN /\ redis' = cm_set(redis, S_survey, proc[p].s, proc[p].val, DefaultExpire)
            /\ proc' = [proc EXCEPT ![p].pc = @ + 1,
                                    ![p].log = Append(@, Event("set", S_survey, proc[p].s))]
       ELSE /\ proc' = [proc EXCEPT ![p] = Finish(p, "error", PyNone)]
            /\ UNCHANGED redis
    /\ UNCHANGED <<keyVars, cacheVars, taskVars, storeVars, ackVer, invVer, nWrites>>

\* wrapper: redis_client.setex(key, expire, json.dumps(result)); return result
RS_DecoSet(p) ==
    /\ At(p, "rs_deco_set")
    /\ IF Dumps(proc[p].val) = TypeError
       THEN /\ proc' = [proc EXCEPT ![p] = Finish(p, "error", PyNone)]
            /\ UNCHANGED redis
       ELSE IF ~up
       THEN /\ proc' = [proc EXCEPT ![p] = Unreachable(p)]
            /\ UNCHANGED redis
       ELSE IF SetexOk(DefaultExpire)
       THEN /\ redis' = RedisSetex(redis, DecoKey(proc[p].s, proc[p].au),
                                   DefaultExpire, Dumps(proc[p].val))
            /\ proc' = [proc EXCEPT ![p] =
                    [Finish(p, "ok", proc[p].val)
                        EXCEPT !.log = Append(@, Event("set", S_read_survey, proc[p].s))]]
       ELSE /\ proc' = [proc EXCEPT ![p] = Finish(p, "error", PyNone)]
            /\ UNCHANGED redis
    /\ UNCHANGED <<keyVars, cacheVars, taskVars, storeVars, ackVer, invVer, nWrites>>

(******************************* create_survey *****************************)

StartCreateSurvey(p) ==
    /\ proc[p].pc = 0
    /\ nWrites < MaxWrites
    /\ nWrites' = nWrites + 1
    /\ \E u \in Users :
        proc' = [proc EXCEPT ![p] =
                    [Idle EXCEPT !.op = "create_survey", !.pc = 1, !.u = u]]
    /\ UNCHANGED <<redis, keyVars, cacheVars, taskVars, storeVars, ackVer, invVer>>

\* db.add(db_survey); db.commit(); db.refresh(db_survey)
CS_CommitSurvey(p) ==
    /\ At(p, "cs_commit_survey")
    /\ LET id == Cardinality(surveys) + 1
       IN  /\ surveys' = surveys \cup {id}
           /\ ver' = [ver EXCEPT ![id] = 1]
           /\ proc' = [proc EXCEPT ![p].s = id, ![p].v = 1, ![p].pc = @ + 1,
                                   ![p].log = Append(@, Event("commit", <<>>, id))]
    /\ UNCHANGED <<redis, keyVars, cacheVars, taskVars, fk, questions, answers, results,
                   ackVer, invVer, nWrites>>

\* for question in survey.questions: db.add(db_question); db.commit()
CS_CommitQuestions(p) ==
    /\ At(p, "cs_commit_questions")
    /\ questions' = Append(questions, proc[p].s)
    /\ ver' = [ver EXCEPT ![proc[p].s] = @ + 1]
    /\ proc' = [proc EXCEPT ![p].v = ver'[proc[p].s], ![p].pc = @ + 1,
                            ![p].log = Append(@, Event("commit", <<>>, proc[p].s))]
    /\ UNCHANGED <<redis, keyVars, cacheVars, taskVars, fk, surveys, answers, results,
                   ackVer, invVer, nWrites>>

\* await CacheManager.invalidate_survey(db_survey.id)
CS_InvalidateSurvey(p) ==
    /\ At(p, "cs_invalidate_survey")
    /\ InvalidateStep(p, S_survey, proc[p].s)
    /\ UNCHANGED <<keyVars, cacheVars, taskVars, storeVars, ackVer, nWrites>>

\* return db_survey
CS_Return(p) ==
    /\ At(p, "cs_return")
    /\ proc' = [proc EXCEPT ![p] =
            [Finish(p, "ok", SurveyRow(proc[p].s, proc[p].v))
                EXCEPT !.log = Append(@, Event("return", <<>>, proc[p].s))]]
    /\ ackVer' = [ackVer EXCEPT ![proc[p].s] = Max(@, proc[p].v)]
    /\ UNCHANGED <<redis, keyVars, cacheVars, taskVars, storeVars, invVer, nWrites>>

(******************************* create_answer *****************************)

StartCreateAnswer(p) ==
    /\ proc[p].pc = 0
    /\ nWrites < MaxWrites
    /\ nWrites' = nWrites + 1
    /\ \E q \in 1..(Len(questions) + 1), u \in Users :
        proc' = [proc EXCEPT ![p] =
                    [Idle EXCEPT !.op = "create_answer", !.pc = 1, !.q = q, !.u = u]]
    /\ UNCHANGED <<redis, keyVars, cacheVars, taskVars, storeVars, ackVer, invVer>>

\* db.add(db_answer); db.commit(): a question_id that names no question is
\* refused by a database that enforces foreign keys.
CA_Commit(p) ==
    /\ At(p, "ca_commit")
    /\ LET q == proc[p].q
           known == q \in DOMAIN questions
       IN  IF ~known /\ fk
           THEN /\ proc' = [proc EXCEPT ![p] = Finish(p, "error", PyNone)]
                /\ UNCHANGED <<answers, ver>>
           ELSE /\ \E text \in AnswerTexts, is_correct \in BOOLEAN :
                    answers' = Append(answers, AnswerRow(q, proc[p].u, text, is_correct))
                /\ ver' = IF known THEN [ver EXCEPT ![questions[q]] = @ + 1] ELSE ver
                /\ proc' = [proc EXCEPT
                        ![p].s = IF known THEN questions[q] ELSE 0,
                        ![p].v = IF known THEN ver'[questions[q]] ELSE 0,
                        ![p].pc = @ + 1,
                        ![p].log = Append(@, Event("commit", <<>>,
                                               IF known THEN questions[q] ELSE 0))]
    /\ UNCHANGED <<redis, keyVars, cacheVars, taskVars, fk, surveys, questions, results,
                   ackVer, invVer, nWrites>>

\* create_answer invalidating survey 1 when it finds no question.
CA_Query_Fallback(p) ==
    /\ At(p, "ca_query")
    /\ proc' = [proc EXCEPT ![p] =
            IF proc[p].q \in DOMAIN questions
            THEN [@ EXCEPT !.s = questions[proc[p].q], !.pc = @ + 1]
            ELSE [@ EXCEPT !.s = 1, !.pc = @ + 1]]
    /\ UNCHANGED <<redis, keyVars, cacheVars, taskVars, storeVars, ackVer, invVer, nWrites>>

\* question = db.query(models.Question).filter(..).first(); if question:
CA_Query(p) ==
    /\ At(p, "ca_query")
    /\ proc' = [proc EXCEPT ![p] =
            IF proc[p].q \in DOMAIN questions
            THEN [@ EXCEPT !.s = questions[proc[p].q], !.pc = @ + 1]
            ELSE [@ EXCEPT !.pc = Goto("create_answer", "ca_return")]]
    /\ UNCHANGED <<redis, keyVars, cacheVars, taskVars, storeVars, ackVer, invVer, nWrites>>

\* await CacheManager.invalidate_survey(question.survey_id)
CA_InvalidateSurvey(p) ==
    /\ At(p, "ca_invalidate_survey")
    /\ InvalidateStep(p, S_survey, proc[p].s)
    /\ UNCHANGED <<keyVars, cacheVars, taskVars, storeVars, ackVer, nWrites>>

\* await CacheManager.invalidate_survey_results(question.survey_id)
CA_InvalidateResults(p) ==
    /\ At(p, "ca_invalidate_results")
    /\ InvalidateStep(p, S_survey_results, proc[p].s)
    /\ UNCHANGED <<keyVars, cacheVars, taskVars, storeVars, ackVer, nWrites>>

\* background_tasks.add_task(tasks.send_survey_notification, survey_id, user.id)
CA_AddTask(p) ==
    /\ At(p, "ca_add_task")
    /\ proc' = [proc EXCEPT
            ![p].bg = Append(@, [task |-> "send_survey_notification",
                                 s |-> proc[p].s, u |-> proc[p].u]),
            ![p].pc = @ + 1,
            ![p].log = Append(@, Event("dispatch", <<>>, proc[p].s))]
    /\ UNCHANGED <<redis, keyVars, cacheVars, taskVars, storeVars, ackVer, invVer, nWrites>>

\* return db_answer
CA_Return(p) ==
    /\ At(p, "ca_return")
    /\ proc' = [proc EXCEPT ![p] =
            [Finish(p, "ok", PyNone)
                EXCEPT !.log = Append(@, Event("return", <<>>, proc[p].s))]]
    /\ ackVer' = IF proc[p].s \in IdSpace
                 THEN [ackVer EXCEPT ![proc[p].s] = Max(@, proc[p].v)]
                 ELSE ackVer
    /\ UNCHANGED <<redis, keyVars, cacheVars, taskVars, storeVars, invVer, nWrites>>

(******************************* create_result *****************************)

StartCreateResult(p) ==
    /\ proc[p].pc = 0
    /\ nWrites < MaxWrites
    /\ nWrites' = nWrites + 1
    /\ \E s \in Targets, u \in Users :
        proc' = [proc EXCEPT ![p] =
                    [Idle EXCEPT !.op = "create_result", !.pc = 1, !.s = s, !.u = u]]
    /\ UNCHANGED <<redis, keyVars, cacheVars, taskVars, storeVars, ackVer, invVer>>

\* db.add(db_result); db.commit(): a survey_id that names no survey is refused
\* by a database that enforces foreign keys.
CR_CommitResult(p) ==
    /\ At(p, "cr_commit_result")
    /\ LET id == proc[p].s
       IN  IF id \notin surveys /\ fk
           THEN /\ proc' = [proc EXCEPT ![p] = Finish(p, "error", PyNone)]
                /\ UNCHANGED <<results, ver>>
           ELSE /\ results' = Append(results, [s |-> id, u |-> proc[p].u])
                /\ ver' = [ver EXCEPT ![id] = @ + 1]
                /\ proc' = [proc EXCEPT ![p].v = ver'[id], ![p].pc = @ + 1,
                                        ![p].log = Append(@, Event("commit", <<>>, id))]
    /\ UNCHANGED <<redis, keyVars, cacheVars, taskVars, fk, surveys, questions, answers,
                   ackVer, invVer, nWrites>>

\* for answer in result.result_answers: db.add(..); db.commit()
CR_CommitAnswers(p) ==
    /\ At(p, "cr_commit_answers")
    /\ ver' = [ver EXCEPT ![proc[p].s] = @ + 1]
    /\ proc' = [proc EXCEPT ![p].v = ver'[proc[p].s], ![p].pc = @ + 1,
                            ![p].log = Append(@, Event("commit", <<>>, proc[p].s))]
    /\ UNCHANGED <<redis, keyVars, cacheVars, taskVars, fk, surveys, questions, answers,
                   results, ackVer, invVer, nWrites>>

\* await CacheManager.invalidate_survey_results(result.survey_id)
CR_InvalidateResults(p) ==
    /\ At(p, "cr_invalidate_results")
    /\ InvalidateStep(p, S_survey_results, proc[p].s)
    /\ UNCHANGED <<keyVars, cacheVars, taskVars, storeVars, ackVer, nWrites>>

\* background_tasks.add_task(tasks.generate_survey_report, result.survey_id)
CR_AddReport(p) ==
    /\ At(p, "cr_add_report")
    /\ proc' = [proc EXCEPT
            ![p].bg = Append(@, [task |-> "generate_survey_report",
                                 s |-> proc[p].s, u |-> 0]),
            ![p].pc = @ + 1,
            ![p].log = Append(@, Event("dispatch", <<>>, proc[p].s))]
    /\ UNCHANGED <<redis, keyVars, cacheVars, taskVars, storeVars, ackVer, invVer, nWrites>>

\* background_tasks.add_task(tasks.send_survey_notification, survey_id, user.id)
CR_AddNotify(p) ==
    /\ At(p, "cr_add_notify")
    /\ proc' = [proc EXCEPT
            ![p].bg = Append(@, [task |-> "send_survey_notification",
                                 s |-> proc[p].s, u |-> proc[p].u]),
            ![p].pc = @ + 1,
            ![p].log = Append(@, Event("dispatch", <<>>, proc[p].s))]
    /\ UNCHANGED <<redis, keyVars, cacheVars, taskVars, storeVars, ackVer, invVer, nWrites>>

\* return db_result
CR_Return(p) ==
    /\ At(p, "cr_return")
    /\ proc' = [proc EXCEPT ![p] =
            [Finish(p, "ok", PyNone)
                EXCEPT !.log = Append(@, Event("return", <<>>, proc[p].s))]]
    /\ ackVer' = [ackVer EXCEPT ![proc[p].s] = Max(@, proc[p].v)]
    /\ UNCHANGED <<redis, keyVars, cacheVars, taskVars, storeVars, invVer, nWrites>>

(******************************** read_result ******************************)

\* The key @cache builds for read_result(result_id=r, db=.., current_user=..).
ResultKey(r, au) ==
    cache_key(S_read_result, <<>>,
              << <<S_result_id, PyInt(r)>>,
                 <<S_db, PyObj(S_Session, SessionAddr, 0)>>,
                 <<S_current_user, PyObj(S_User, au, 0)>> >>)

StartReadResult(p) ==
    /\ proc[p].pc = 0
    /\ \E r \in 1..(Len(results) + 1), u \in Users, au \in UserAddrs :
        proc' = [proc EXCEPT ![p] =
                    [Idle EXCEPT !.op = "read_result", !.pc = 1, !.r = r, !.u = u,
                                 !.au = au]]
    /\ UNCHANGED <<redis, keyVars, cacheVars, taskVars, storeVars, ackVer, invVer, nWrites>>

\* wrapper: cached_value = redis_client.get(key); return json.loads(..)
RR_DecoGet(p) ==
    /\ At(p, "rr_deco_get")
    /\ LET data == RedisGet(redis, ResultKey(proc[p].r, proc[p].au))
       IN  proc' = [proc EXCEPT ![p] =
                IF ~up THEN Unreachable(p)
                ELSE IF Found(data) THEN Finish(p, "ok", Loads(data))
                ELSE [@ EXCEPT !.pc = @ + 1]]
    /\ UNCHANGED <<redis, keyVars, cacheVars, taskVars, storeVars, ackVer, invVer, nWrites>>

\* result = db.query(models.Result).filter(id == result_id,
\*     user_id == current_user.id).first(); 404 if None
RR_Query(p) ==
    /\ At(p, "rr_query")
    /\ LET r == proc[p].r
       IN  proc' = [proc EXCEPT ![p] =
                IF r \in DOMAIN results /\ results[r].u = proc[p].u
                THEN [@ EXCEPT !.val = PyObj(S_Result, 0, [id |-> r]),
                               !.s = results[r].s,
                               !.pc = @ + 1,
                               !.log = Append(@, Event("query", <<>>, r))]
                ELSE Finish(p, "not_found", PyNone)]
    /\ UNCHANGED <<redis, keyVars, cacheVars, taskVars, storeVars, ackVer, invVer, nWrites>>

\* wrapper: redis_client.setex(key, expire, json.dumps(result)); return result
RR_DecoSet(p) ==
    /\ At(p, "rr_deco_set")
    /\ IF Dumps(proc[p].val) = TypeError
       THEN /\ proc' = [proc EXCEPT ![p] = Finish(p, "error", PyNone)]
            /\ UNCHANGED redis
       ELSE IF ~up
       THEN /\ proc' = [proc EXCEPT ![p] = Unreachable(p)]
            /\ UNCHANGED redis
       ELSE /\ redis' = RedisSetex(redis, ResultKey(proc[p].r, proc[p].au),
                                   DefaultExpire, Dumps(proc[p].val))
            /\ proc' = [proc EXCEPT ![p] =
                    [Finish(p, "ok", proc[p].val)
                        EXCEPT !.log = Append(@, Event("set", S_read_result, proc[p].r))]]
    /\ UNCHANGED <<keyVars, cacheVars, taskVars, storeVars, ackVer, invVer, nWrites>>

(************************ read_answers, read_results ************************)

ListOps == { "read_answers", "read_results" }

\* The skip and limit a request passes; 0 and 100 are what it gets when it
\* passes none.
Skips == { 0, 1 }
Limits == { 1, 100 }

FuncName(op) == IF op = "read_answers" THEN S_read_answers ELSE S_read_results

\* The key @cache builds for read_answers(skip=.., limit=.., db=..,
\* current_user=..) and for read_results.
ListKey(op, skip, limit, au) ==
    cache_key(FuncName(op), <<>>,
              << <<S_skip, PyInt(skip)>>,
                 <<S_limit, PyInt(limit)>>,
                 <<S_db, PyObj(S_Session, SessionAddr, 0)>>,
                 <<S_current_user, PyObj(S_User, au, 0)>> >>)

\* The ids of the rows of a table that belong to user u, in table order.
RECURSIVE OwnedBy(_, _, _)
OwnedBy(table, u, i) ==
    IF i > Len(table) THEN <<>>
    ELSE (IF table[i].u = u THEN <<i>> ELSE <<>>) \o OwnedBy(table, u, i + 1)

\* db.query(models.Answer).filter(user_id == u).offset(skip).limit(limit).all()
\* and the same on models.Result: the rows as ORM entities.
ListQuery(op, u, skip, limit) ==
    LET ids == OwnedBy(IF op = "read_answers" THEN answers ELSE results, u, 1)
        cls == IF op = "read_answers" THEN S_Answer ELSE S_Result
        upto == IF Len(ids) < skip + limit THEN Len(ids) ELSE skip + limit
        page == SubSeq(ids, skip + 1, upto)
    IN  PyList([i \in 1..Len(page) |-> PyObj(cls, 0, [id |-> page[i]])])

StartReadList(p) ==
    /\ proc[p].pc = 0
    /\ \E op \in ListOps, skip \in Skips, limit \in Limits, u \in Users,
          au \in UserAddrs :
        proc' = [proc EXCEPT ![p] =
                    [Idle EXCEPT !.op = op, !.pc = 1, !.skip = skip,
                                 !.limit = limit, !.u = u, !.au = au]]
    /\ UNCHANGED <<redis, keyVars, cacheVars, taskVars, storeVars, ackVer, invVer, nWrites>>

\* wrapper: cached_value = redis_client.get(key); return json.loads(..)
RL_DecoGet(p) ==
    /\ At(p, "rl_deco_get")
    /\ LET key == ListKey(proc[p].op, proc[p].skip, proc[p].limit, proc[p].au)
           data == RedisGet(redis, key)
       IN  proc' = [proc EXCEPT ![p] =
                IF ~up THEN Unreachable(p)
                ELSE IF Found(data)
                THEN [Finish(p, "ok", Loads(data))
                        EXCEPT !.log = Append(@, Event("hit", key, 0))]
                ELSE [@ EXCEPT !.pc = @ + 1]]
    /\ UNCHANGED <<redis, keyVars, cacheVars, taskVars, storeVars, ackVer, invVer, nWrites>>

\* answers = db.query(models.Answer).filter(..).offset(skip).limit(limit).all()
RL_Query(p) ==
    /\ At(p, "rl_query")
    /\ LET rows == ListQuery(proc[p].op, proc[p].u, proc[p].skip, proc[p].limit)
       IN  proc' = [proc EXCEPT ![p] =
                [@ EXCEPT !.val = rows,
                          !.pc = @ + 1,
                          !.log = Append(@, Event("query", <<>>, rows))]]
    /\ UNCHANGED <<redis, keyVars, cacheVars, taskVars, storeVars, ackVer, invVer, nWrites>>

\* wrapper: redis_client.setex(key, expire, json.dumps(result)); return result
RL_DecoSet(p) ==
    /\ At(p, "rl_deco_set")
    /\ LET key == ListKey(proc[p].op, proc[p].skip, proc[p].limit, proc[p].au)
       IN  IF Dumps(proc[p].val) = TypeError
           THEN /\ proc' = [proc EXCEPT ![p] = Finish(p, "error", PyNone)]
                /\ UNCHANGED redis
           ELSE IF ~up
           THEN /\ proc' = [proc EXCEPT ![p] = Unreachable(p)]
                /\ UNCHANGED redis
           ELSE /\ redis' = RedisSetex(redis, key, DefaultExpire, Dumps(proc[p].val))
                /\ proc' = [proc EXCEPT ![p] =
                        [Finish(p, "ok", proc[p].val)
                            EXCEPT !.log = Append(@, Event("set", key, 0))]]
    /\ UNCHANGED <<keyVars, cacheVars, taskVars, storeVars, ackVer, invVer, nWrites>>

(********************** export_survey, get_survey_report *******************)

\* At most this many tasks are sent to the Celery broker.
MaxTasks == 2

\* {"message": .., "task_id": task.id}
TaskHandle(message, task_id) == [t |-> "handle", message |-> message, task_id |-> task_id]

StartTaskRequest(p, op) ==
    /\ proc[p].pc = 0
    /\ Len(celery) < MaxTasks
    /\ \E s \in Targets, u \in Users :
        proc' = [proc EXCEPT ![p] =
                    [Idle EXCEPT !.op = op, !.pc = 1, !.s = s, !.u = u]]
    /\ UNCHANGED <<redis, keyVars, cacheVars, taskVars, storeVars, ackVer, invVer, nWrites>>

\* The handler going on without looking for the survey.
TaskQuery_NoCheck(p, label) ==
    /\ At(p, label)
    /\ proc' = [proc EXCEPT ![p].pc = @ + 1]
    /\ UNCHANGED <<redis, keyVars, cacheVars, taskVars, storeVars, ackVer, invVer, nWrites>>

\* survey = db.query(models.Survey).filter(..).first(); 404 if not survey
TaskQuery(p, label) ==
    /\ At(p, label)
    /\ proc' = [proc EXCEPT ![p] =
            IF proc[p].s \in surveys
            THEN [@ EXCEPT !.pc = @ + 1,
                           !.log = Append(@, Event("query", <<>>, proc[p].s))]
            ELSE Finish(p, "not_found", PyNone)]
    /\ UNCHANGED <<redis, keyVars, cacheVars, taskVars, storeVars, ackVer, invVer, nWrites>>

\* task = tasks.<task>.delay(survey_id): a message to the broker; the task is
\* PENDING until a worker takes it.
TaskDelay(p, label, task) ==
    /\ At(p, label)
    /\ celery' = Append(celery, [task |-> task, s |-> proc[p].s, state |-> "PENDING"])
    /\ proc' = [proc EXCEPT ![p].val = PyInt(Len(celery) + 1),
                            ![p].pc = @ + 1,
                            ![p].log = Append(@, Event("delay", task, proc[p].s))]
    /\ UNCHANGED <<redis, keyVars, cacheVars, storeVars, ackVer, invVer, nWrites,
                   up, reports>>

\* The handler returning once the task has run to its end.
TaskReturn_Waits(p, label, message) ==
    /\ At(p, label)
    /\ celery[proc[p].val.n].state \in { "SUCCESS", "FAILURE" }
    /\ proc' = [proc EXCEPT ![p] = Finish(p, "ok", TaskHandle(message, proc[p].val.n))]
    /\ UNCHANGED <<redis, keyVars, cacheVars, taskVars, storeVars, ackVer, invVer, nWrites>>

\* return {"message": .., "task_id": task.id}
TaskReturn(p, label, message) ==
    /\ At(p, label)
    /\ proc' = [proc EXCEPT ![p] = Finish(p, "ok", TaskHandle(message, proc[p].val.n))]
    /\ UNCHANGED <<redis, keyVars, cacheVars, taskVars, storeVars, ackVer, invVer, nWrites>>

StartExportSurvey(p) == StartTaskRequest(p, "export_survey")
EX_Query(p) == TaskQuery(p, "ex_query")
EX_Delay(p) == TaskDelay(p, "ex_delay", "export_survey_data")
EX_Return(p) == TaskReturn(p, "ex_return", "Export started")

StartGetSurveyReport(p) == StartTaskRequest(p, "get_survey_report")
GR_Query(p) == TaskQuery(p, "gr_query")
GR_Delay(p) == TaskDelay(p, "gr_delay", "generate_survey_report")
GR_Return(p) == TaskReturn(p, "gr_return", "Report generation started")

(************************* where the tasks are run *************************)

\* send_survey_notification(survey_id, user_id): the users who send requests
\* exist; the SMTP server accepts the message or the send raises.
send_survey_notification(survey_id, user_id, smtp_ok) ==
    IF user_id \notin Users \/ survey_id \notin surveys
    THEN Outcome("error", "User or survey not found", 0, <<>>)
    ELSE IF smtp_ok THEN Outcome("status", "Email sent successfully", 0, <<>>)
    ELSE Outcome("raised", "SMTPException", 0, <<>>)

\* export_survey_data(survey_id): the upload to S3 is made or raises.
export_survey_data(survey_id, s3_ok) ==
    IF survey_id \notin surveys THEN SurveyNotFound
    ELSE IF s3_ok THEN Outcome("status", "Export completed", 0, <<>>)
    ELSE Outcome("raised", "ClientError", 0, <<>>)

\* What a run of task t can give.
RunOf(t) ==
    CASE t.task = "generate_survey_report" ->
            { generate_survey_report(t.s, order) : order \in Orders(JoinedAnswers(t.s)) }
      [] t.task = "send_survey_notification" ->
            { send_survey_notification(t.s, t.u, ok) : ok \in BOOLEAN }
      [] t.task = "export_survey_data" ->
            { export_survey_data(t.s, ok) : ok \in BOOLEAN }

\* The request of slot p has sent its response and has background tasks that
\* are still to run; a task that raised ended the run.
Pending(p) ==
    /\ proc[p].pc = 0
    /\ proc[p].resp.status = "ok"
    /\ Len(proc[p].ran) < Len(proc[p].bg)
    /\ \A i \in 1..Len(proc[p].ran) : proc[p].ran[i].out.out # "raised"

\* The background tasks run before the response is sent, a task that
\* raises failing the request.
BgRun_FailsRequest(p) ==
    /\ Pending(p)
    /\ LET t == proc[p].bg[Len(proc[p].ran) + 1]
       IN  \E out \in RunOf(t) :
            proc' = [proc EXCEPT
                ![p].ran = Append(@, [task |-> t.task, s |-> t.s, u |-> t.u, out |-> out]),
                ![p].resp = IF out.out = "raised"
                            THEN [status |-> "error", body |-> PyNone] ELSE @]
    /\ UNCHANGED <<redis, keyVars, cacheVars, taskVars, storeVars, ackVer, invVer, nWrites>>

\* starlette BackgroundTasks.__call__, after the response has been sent:
\* for task in self.tasks: await task(), each a call of the task function in
\* the web process; an exception ends the loop.
BgRun(p) ==
    /\ Pending(p)
    /\ LET t == proc[p].bg[Len(proc[p].ran) + 1]
       IN  \E out \in RunOf(t) :
            proc' = [proc EXCEPT
                ![p].ran = Append(@, [task |-> t.task, s |-> t.s, u |-> t.u, out |-> out])]
    /\ UNCHANGED <<redis, keyVars, cacheVars, taskVars, storeVars, ackVer, invVer, nWrites>>

\* A Celery worker takes a task off the broker.
WorkerStart ==
    /\ \E i \in DOMAIN celery :
        /\ celery[i].state = "PENDING"
        /\ celery' = [celery EXCEPT ![i].state = "STARTED"]
    /\ UNCHANGED <<redis, keyVars, cacheVars, appVars, up, reports>>

\* The worker runs the task body to its end.
WorkerFinish ==
    /\ \E i \in DOMAIN celery :
        /\ celery[i].state = "STARTED"
        /\ \E out \in RunOf([task |-> celery[i].task, s |-> celery[i].s, u |-> 0]) :
            celery' = [celery EXCEPT
                ![i].state = IF out.out = "raised" THEN "FAILURE" ELSE "SUCCESS"]
    /\ UNCHANGED <<redis, keyVars, cacheVars, appVars, up, reports>>

\* The Redis server of the cache stops answering.
Outage ==
    /\ up
    /\ up' = FALSE
    /\ UNCHANGED <<redis, keyVars, cacheVars, appVars, celery, reports>>

(************************* the rest of the system **************************)

\* A client of CacheManager reads survey s from the store and caches it as a
\* dict: await CacheManager.set_survey(s, data).
Populate ==
    /\ up
    /\ \E s \in surveys :
        redis' = cm_set(redis, S_survey, s, SurveyDict(ver[s]), DefaultExpire)
    /\ UNCHANGED <<keyVars, cacheVars, taskVars, appVars>>

\* DefaultExpire seconds pass: every entry written before is gone.
Tick ==
    /\ redis # NoDb
    /\ redis' = RedisAfter(redis, DefaultExpire)
    /\ UNCHANGED <<keyVars, cacheVars, taskVars, appVars>>

Init ==
    /\ redis = NoDb
    /\ calls = <<>>
    /\ last = NoCall
    /\ written = NoCall
    /\ invalidated = {}
    /\ fk \in BOOLEAN
    /\ surveys = {1}
    /\ questions = <<1>>
    /\ answers = <<>>
    /\ results = <<>>
    /\ ver = [s \in IdSpace |-> 0]
    /\ proc = [p \in Procs |-> Idle]
    /\ ackVer = [s \in IdSpace |-> 0]
    /\ invVer = [s \in IdSpace |-> 0]
    /\ nWrites = 0
    /\ up = TRUE
    /\ celery = <<>>
    /\ reports = <<>>

\* One step of a read request in slot p.
ReadHandler(p) ==
    \/ StartReadSurvey(p) \/ RS_DecoGet(p) \/ RS_CmGet(p) \/ RS_Query(p)
    \/ RS_CmSet(p) \/ RS_DecoSet(p)

\* One step of a write request in slot p.
WriteHandler(p) ==
    \/ StartCreateSurvey(p) \/ CS_CommitSurvey(p) \/ CS_CommitQuestions(p)
    \/ CS_InvalidateSurvey(p) \/ CS_Return(p)
    \/ StartCreateAnswer(p) \/ CA_Commit(p) \/ CA_Query(p)
    \/ CA_InvalidateSurvey(p) \/ CA_InvalidateResults(p) \/ CA_AddTask(p)
    \/ CA_Return(p)
    \/ StartCreateResult(p) \/ CR_CommitResult(p) \/ CR_CommitAnswers(p)
    \/ CR_InvalidateResults(p) \/ CR_AddReport(p) \/ CR_AddNotify(p)
    \/ CR_Return(p)

\* Requests handled one after the other.
Next == ReadHandler("p1") \/ WriteHandler("p1") \/ Populate \/ Tick

Spec == Init /\ [][Next]_vars

\* A read request and a write request handled at the same time, their round
\* trips interleaved.
NextRace == ReadHandler("p1") \/ WriteHandler("p2") \/ Populate \/ Tick

SpecRace == Init /\ [][NextRace]_vars

ReadResultHandler(p) ==
    \/ StartReadResult(p) \/ RR_DecoGet(p) \/ RR_Query(p) \/ RR_DecoSet(p)

TaskHandler(p) ==
    \/ StartExportSurvey(p) \/ EX_Query(p) \/ EX_Delay(p) \/ EX_Return(p)
    \/ StartGetSurveyReport(p) \/ GR_Query(p) \/ GR_Delay(p) \/ GR_Return(p)

\* Requests handled one after the other, each followed by its background
\* tasks.
NextTasks ==
    \/ /\ ~Pending("p1")
       /\ ReadHandler("p1") \/ WriteHandler("p1") \/ ReadResultHandler("p1")
    \/ BgRun("p1")
    \/ Populate

SpecTasks == Init /\ [][NextTasks]_vars

\* The store holds survey 1 with one question and one result of user 1.
InitCelery ==
    /\ redis = NoDb
    /\ calls = <<>>
    /\ last = NoCall
    /\ written = NoCall
    /\ invalidated = {}
    /\ fk \in BOOLEAN
    /\ surveys = {1}
    /\ questions = <<1>>
    /\ answers \in { <<>>, <<AnswerRow(1, 1, "a", TRUE)>> }
    /\ results = << [s |-> 1, u |-> 1] >>
    /\ ver = [s \in IdSpace |-> 0]
    /\ proc = [p \in Procs |-> Idle]
    /\ ackVer = [s \in IdSpace |-> 0]
    /\ invVer = [s \in IdSpace |-> 0]
    /\ nWrites = 0
    /\ up = TRUE
    /\ celery = <<>>
    /\ reports = <<>>

\* Read, export and report requests handled one after the other while the
\* Celery workers run what was sent to them.
NextCelery ==
    \/ ReadHandler("p1") \/ ReadResultHandler("p1") \/ TaskHandler("p1")
    \/ WorkerStart \/ WorkerFinish
    \/ Populate

SpecCelery == InitCelery /\ [][NextCelery]_vars

\* Requests handled one after the other, the Redis server of the cache going
\* down at some point.
NextOutage ==
    \/ ReadHandler("p1") \/ WriteHandler("p1")
    \/ Populate \/ Outage

SpecOutage == Init /\ [][NextOutage]_vars

\* One step of a read_answers or read_results request in slot p.
ReadListHandler(p) ==
    \/ StartReadList(p) \/ RL_DecoGet(p) \/ RL_Query(p) \/ RL_DecoSet(p)

\* The store holds survey 1 with one question; user 1 may have an answer and
\* a result, user 2 has none.
InitLists ==
    /\ redis = NoDb
    /\ calls = <<>>
    /\ last = NoCall
    /\ written = NoCall
    /\ invalidated = {}
    /\ fk = TRUE
    /\ surveys = {1}
    /\ questions = <<1>>
    /\ answers \in { <<>>, <<AnswerRow(1, 1, "a", TRUE)>> }
    /\ results \in { <<>>, << [s |-> 1, u |-> 1] >> }
    /\ ver = [s \in IdSpace |-> 0]
    /\ proc = [p \in Procs |-> Idle]
    /\ ackVer = [s \in IdSpace |-> 0]
    /\ invVer = [s \in IdSpace |-> 0]
    /\ nWrites = 0
    /\ up = TRUE
    /\ celery = <<>>
    /\ reports = <<>>

\* A list request in slot p1 and, once it has finished, a list request in
\* slot p2, with no time passing: the second comes within the expiry of
\* whatever the first cached.
NextLists ==
    \/ /\ proc["p1"].op = "idle" \/ proc["p1"].pc # 0
       /\ ReadListHandler("p1")
    \/ /\ proc["p1"].op # "idle"
       /\ proc["p1"].pc = 0
       /\ proc["p2"].op = "idle" \/ proc["p2"].pc # 0
       /\ ReadListHandler("p2")

SpecLists == InitLists /\ [][NextLists]_vars

(***************************************************************************)
(* The claims about the handlers                                           *)
(***************************************************************************)

WriteOps == { "create_survey", "create_answer", "create_result" }

\* Slot p holds a finished request of handler op that returned success.
Returned(p, op) ==
    /\ proc[p].op = op
    /\ proc[p].pc = 0
    /\ proc[p].resp.status = "ok"

Logged(p, e, kind, id) ==
    \E i \in 1..Len(proc[p].log) : proc[p].log[i] = Event(e, kind, id)

\* The keys under which read_survey looks survey s up.
KeysFor(s) == { KeyOf(S_survey, s) } \cup { DecoKey(s, au) : au \in UserAddrs }

Rank(e) ==
    CASE e = "commit" -> 1
      [] e = "invalidate_begin" -> 2
      [] e = "invalidate" -> 2
      [] e = "dispatch" -> 3
      [] e = "return" -> 4
      [] OTHER -> 0

\* C2: in a write request every commit comes before the first invalidation,
\* every invalidation before any dispatch, and all of them before the
\* return; an invalidation is issued only after a commit of the request, and
\* a request that returned success has committed.
C2_WriteOrdering ==
    \A p \in Procs :
        proc[p].op \in WriteOps =>
            LET log == proc[p].log
            IN  /\ \A i, j \in 1..Len(log) :
                        i < j => Rank(log[i].e) <= Rank(log[j].e)
                /\ \A j \in 1..Len(log) :
                        Rank(log[j].e) = 2 => \E i \in 1..(j - 1) : log[i].e = "commit"
                /\ proc[p].resp.status = "ok" =>
                        /\ \E i \in 1..Len(log) : log[i].e = "commit"
                        /\ log[Len(log)].e = "return"

\* A write that committed, invalidated, dispatched and returned success.
C2_Witness ==
    \E p \in Procs :
        /\ Returned(p, "create_result")
        /\ \E i, j, k \in 1..Len(proc[p].log) :
            /\ i < j /\ j < k
            /\ proc[p].log[i].e = "commit"
            /\ proc[p].log[j].e = "invalidate"
            /\ proc[p].log[k].e = "dispatch"

\* C3 as stated: a write that returned success after changing data of survey
\* s has invalidated both the "survey" and the "survey_results" resource of s.
C3_AsStated ==
    \A p \in Procs, op \in WriteOps :
        (Returned(p, op) /\ proc[p].s \in IdSpace) =>
            /\ Logged(p, "invalidate", S_survey, proc[p].s)
            /\ Logged(p, "invalidate", S_survey_results, proc[p].s)

C6_AsStated ==
    \A p \in Procs :
        (proc[p].op = "read_survey" /\ proc[p].pc = 0
            /\ Logged(p, "query", <<>>, proc[p].s))
            => /\ proc[p].resp.status = "ok"
               /\ KeyOf(S_survey, proc[p].s) \in DOMAIN redis

(***************************************************************************)
(* The claims about the tasks and about failures                           *)
(***************************************************************************)

\* A task as a handler schedules it.
Job(task, s, u) == [task |-> task, s |-> s, u |-> u]

\* The request of slot p made this kind of call.
Did(p, e) == \E i \in 1..Len(proc[p].log) : proc[p].log[i].e = e

\* The background run of slot p executed a task that raised.
TaskRaised(p) == \E i \in 1..Len(proc[p].ran) : proc[p].ran[i].out.out = "raised"

\* C12: a background task of create_answer or create_result that fails leaves
\* the success response as it was sent, the committed rows in the store and
\* the cache as the handler's invalidation left it.
C12_TaskFailureKeepsWrite ==
    [][\A p \in Procs :
        ( /\ Len(proc'[p].ran) = Len(proc[p].ran) + 1
          /\ proc'[p].ran[Len(proc'[p].ran)].out.out = "raised" )
        => /\ proc[p].resp.status = "ok"
           /\ proc'[p].resp = proc[p].resp
           /\ answers' = answers
           /\ results' = results
           /\ redis' = redis]_vars

\* create_answer returned success, its notification then failed; the answer
\* is in the store and the survey's cache entry is still gone.
C12_Witness ==
    \E p \in Procs :
        /\ Returned(p, "create_answer")
        /\ TaskRaised(p)
        /\ \E i \in DOMAIN answers : answers[i].q = proc[p].q /\ answers[i].u = proc[p].u
        /\ Logged(p, "invalidate", S_survey, proc[p].s)
        /\ KeyOf(S_survey, proc[p].s) \notin DOMAIN redis

\* The one task sent by the finished request of slot p is this one, and the
\* response carries its id.
OneTask(p, task, message) ==
    LET log == proc[p].log
        body == proc[p].resp.body
    IN  /\ proc[p].s \in surveys
        /\ Cardinality({ i \in 1..Len(log) : log[i].e = "delay" }) = 1
        /\ Logged(p, "delay", task, proc[p].s)
        /\ body = TaskHandle(message, body.task_id)
        /\ body.task_id \in DOMAIN celery
        /\ celery[body.task_id].task = task
        /\ celery[body.task_id].s = proc[p].s

CacheSteps ==
    { "rs_deco_get", "rs_cm_get", "rs_cm_set", "rs_deco_set", "rr_deco_get",
      "rr_deco_set", "cs_invalidate_survey", "ca_invalidate_survey",
      "ca_invalidate_results", "cr_invalidate_results" }

\* C14: a request that makes a cache get, set or invalidate while Redis cannot
\* be reached ends there, in failure.
C14_OutageFailsRequest ==
    [][\A p \in Procs :
        ( /\ ~up
          /\ proc[p].pc # 0
          /\ Steps(proc[p].op)[proc[p].pc] \in CacheSteps
          /\ proc'[p] # proc[p] )
        => /\ proc'[p].pc = 0
           /\ proc'[p].resp.status = "error"]_vars

\* create_answer committed its answer, found Redis unreachable when
\* invalidating, and failed.
C14_Witness ==
    \E p \in Procs :
        /\ proc[p].op = "create_answer"
        /\ Did(p, "commit")
        /\ Did(p, "unreachable")
        /\ proc[p].pc = 0
        /\ proc[p].resp.status = "error"

NotFoundOps == { "read_survey", "read_result", "export_survey", "get_survey_report" }

\* What the request of slot p names is not in the store (or, for
\* read_result, is not a result of the requester).
Absent(p) ==
    IF proc[p].op = "read_result"
    THEN ~(proc[p].r \in DOMAIN results /\ results[proc[p].r].u = proc[p].u)
    ELSE proc[p].s \notin surveys

\* C15: read_survey, read_result, export_survey and get_survey_report, when
\* what they name is absent, end with not-found, having written no cache
\* entry and sent no task.
C15_NotFound ==
    \A p \in Procs :
        ( /\ proc[p].op \in NotFoundOps
          /\ proc[p].pc = 0
          /\ proc[p].resp.status # "none"
          /\ Absent(p) )
        => /\ proc[p].resp.status = "not_found"
           /\ ~Did(p, "set")
           /\ ~Did(p, "delay")
           /\ ~Did(p, "dispatch")
           /\ proc[p].bg = <<>>

\* read_result ended with not-found for a result that exists and belongs to
\* another user.
C15_Witness ==
    \E p \in Procs :
        /\ proc[p].op = "read_result"
        /\ proc[p].pc = 0
        /\ proc[p].resp.status = "not_found"
        /\ proc[p].r \in DOMAIN results
        /\ results[proc[p].r].u # proc[p].u

\* C17 as stated: every task a handler schedules is in the broker's queue, and
\* the web process runs no task body.
C17_AsStated ==
    \A p \in Procs :
        /\ proc[p].ran = <<>>
        /\ \A i \in 1..Len(proc[p].bg) :
                \E j \in DOMAIN celery :
                    celery[j].task = proc[p].bg[i].task /\ celery[j].s = proc[p].bg[i].s

\* C18: a create_result that returned success scheduled one report and one
\* notification job; a create_answer on an existing question that returned
\* success scheduled one notification job and nothing else; create_survey,
\* read_survey and read_result schedule nothing; none of them sends a task
\* to the broker.
C18_DispatchCount ==
    \A p \in Procs :
        /\ Returned(p, "create_result") =>
                proc[p].bg = << Job("generate_survey_report", proc[p].s, 0),
                                Job("send_survey_notification", proc[p].s, proc[p].u) >>
        /\ (Returned(p, "create_answer") /\ proc[p].q \in DOMAIN questions) =>
                proc[p].bg = << Job("send_survey_notification",
                                    questions[proc[p].q], proc[p].u) >>
        /\ proc[p].op \in { "create_survey", "read_survey", "read_result" } =>
                proc[p].bg = <<>>
        /\ ~Did(p, "delay")

\* A create_result that returned success with its two jobs scheduled.
C18_Witness ==
    \E p \in Procs :
        /\ Returned(p, "create_result")
        /\ Len(proc[p].bg) = 2

\* C19 as stated: once the background run of a successful create_result is
\* over, its notification job has been executed, whatever the report job did.
C19_AsStated ==
    \A p \in Procs :
        (Returned(p, "create_result") /\ ~Pending(p)) =>
            \E i \in 1..Len(proc[p].ran) :
                proc[p].ran[i].task = "send_survey_notification"

\* The request of slot p is a create_answer whose question_id names no
\* question.
Dangling(p) ==
    /\ proc[p].op = "create_answer"
    /\ proc[p].q \notin DOMAIN questions

\* The answers table holds the answer the request of slot p submitted.
Committed(p) ==
    \E i \in DOMAIN answers : answers[i].q = proc[p].q /\ answers[i].u = proc[p].u

\* C23 as stated: a create_answer whose question_id names no question
\* commits the answer and returns success, invalidates nothing and schedules
\* no task.
C23_AsStated ==
    \A p \in Procs :
        (Dangling(p) /\ proc[p].pc = 0) =>
            /\ proc[p].resp.status = "ok"
            /\ Committed(p)
            /\ ~Did(p, "invalidate_begin")
            /\ proc[p].bg = <<>>

\* C23 amended: a create_answer whose question_id names no question commits
\* the answer and returns success where the database does not enforce the
\* foreign key, and fails at the commit, leaving no answer, where it does;
\* either way it invalidates nothing, schedules no task and leaves every
\* cache entry as it was.
C23_DanglingQuestion ==
    /\ [](\A p \in Procs :
            (Dangling(p) /\ proc[p].pc = 0) =>
                /\ ~fk => (proc[p].resp.status = "ok" /\ Committed(p))
                /\ fk => (proc[p].resp.status = "error" /\ ~Committed(p))
                /\ ~Did(p, "invalidate_begin")
                /\ proc[p].bg = <<>>)
    /\ [][\A p \in Procs :
            (Dangling(p) /\ proc'[p] # proc[p] /\ proc'[p].op = "create_answer")
                => redis' = redis]_vars

\* A create_answer on a missing question returned success with its answer
\* committed while the cache holds an entry.
C23_Witness ==
    \E p \in Procs :
        /\ Dangling(p)
        /\ Returned(p, "create_answer")
        /\ Committed(p)
        /\ redis # NoDb

\* Slots p1 and p2 hold two finished list requests, the second made after the
\* first, by different principals with the same call.
SameCall ==
    /\ proc["p1"].op \in ListOps
    /\ proc["p2"].op = proc["p1"].op
    /\ proc["p1"].pc = 0
    /\ proc["p2"].pc = 0
    /\ proc["p2"].skip = proc["p1"].skip
    /\ proc["p2"].limit = proc["p1"].limit
    /\ proc["p2"].u # proc["p1"].u

\* C22 as stated: of two principals making the same read_answers or
\* read_results call within the expiry, the second is served from the cache
\* the list that the first one's query computed.
C22_AsStated ==
    (SameCall /\ Did("p1", "query")) =>
        /\ ~Did("p2", "query")
        /\ proc["p2"].resp.status = "ok"
        /\ \E i \in 1..Len(proc["p1"].log) :
                /\ proc["p1"].log[i].e = "query"
                /\ proc["p2"].resp.body = proc["p1"].log[i].id

====
